---- MODULE Spec2Model ----
(***************************************************************************)
(* State-machine model of the vigicrues client library: the Vigicrues      *)
(* facade (client.py), the DiscoveryClient (discovery.py) and the          *)
(* VigicruesClient (vigicrues.py), driven by a caller and by the two       *)
(* upstream HTTP services.                                                 *)
(***************************************************************************)
EXTENDS Integers, Sequences, FiniteSets, TLC

\* ------------------------------------------------------------------------
\* Bounds of the model
\* ------------------------------------------------------------------------
MaxEnters == 2
MaxResults == 2
MaxParents == 2
MaxChildren == 2
MaxObs == 2

\* ------------------------------------------------------------------------
\* Python values
\* ------------------------------------------------------------------------
\* JSON null / Python None held by a string-valued field
NULL == "null"
\* a key that is missing from a JSON object
ABSENT == "absent"
\* Python None given as the timeout argument
NoTimeout == -1
DEFAULT_TIMEOUT == 30
\* the facade's session reference when it is None
NoSession == 0

\* an exception: its class and the parts of its message
Err(t, m) == [type |-> t, msg |-> m]
NoErr == Err("", <<>>)

\* exception classes and their base classes (aiohttp, pydantic, builtins)
Bases(t) ==
    CASE t = "ClientResponseError" -> {"ClientResponseError", "ClientError"}
      [] t = "ClientConnectionError" -> {"ClientConnectionError", "ClientError"}
      [] t = "ValidationError" -> {"ValidationError", "ValueError"}
      [] OTHER -> {t}

IsInstance(e, cls) == cls \in Bases(e.type)

\* dict.get(key): a missing key reads as None
Get(v) == IF v = ABSENT THEN NULL ELSE v

\* a guard that lets the empty string through
FalsyNoneOnly(s) == s = NULL

\* `not s` for an optional string: None and "" are falsy
Falsy(s) == s = NULL \/ s = ""

Raised(e) == [kind |-> "raise", error |-> e, value |-> <<>>]
Returned(v) == [kind |-> "return", error |-> NoErr, value |-> v]
NoOutcome == [kind |-> "none", error |-> NoErr, value |-> <<>>]

NoResponse == [kind |-> "none", status |-> 0, body |-> <<>>]

\* sequences over S of length at most n
SeqUpTo(S, n) == UNION {[1..k -> S] : k \in 0..n}

VARIABLES
    session,              \* Vigicrues._session: index into sessions, or NoSession
    owns_session,         \* Vigicrues._owns_session
    timeout,              \* Vigicrues._timeout
    timeout_arg,          \* the timeout argument given to the constructor
    sessions,             \* every aiohttp.ClientSession that exists
    enters,               \* number of __aenter__ calls so far
    exits,                \* number of __aexit__ calls so far
    exit_result,          \* what the last __aexit__ was given and what left it
    pc,                   \* position of the operation in progress
    call,                 \* the operation in progress (or the last one) and its arguments
    requests,             \* outbound requests issued by that operation, in order
    response,             \* the upstream answer being processed
    stations,             \* search_stations: the discovery hits
    idx,                  \* search_stations: position of the hit being checked
    detail_results,       \* search_stations: what get_station_details gave, hit by hit
    valid_full_stations,  \* search_stations: the details collected so far
    outcome,              \* how the last operation ended
    cli_pc,               \* cli.get: the await it is suspended at, or "off"
    cli_args,             \* cli.get: args.station_id
    cli_calls,            \* cli.get: the calls it made on its client, in order
    cli_results,          \* cli.get: how each of these calls ended
    cli_printed,          \* cli.get: the lines it printed
    cli_raised            \* cli.get: the exception that left it, if any

lifeVars == <<session, owns_session, timeout, timeout_arg, sessions, enters, exits>>
callVars == <<pc, call, requests, response, stations, idx, detail_results,
              valid_full_stations, outcome>>
cliVars == <<cli_pc, cli_args, cli_calls, cli_results, cli_printed, cli_raised>>
vars == <<session, owns_session, timeout, timeout_arg, sessions, enters, exits,
          exit_result, pc, call, requests, response, stations, idx,
          detail_results, valid_full_stations, outcome,
          cli_pc, cli_args, cli_calls, cli_results, cli_printed, cli_raised>>

NoCall == [op |-> "", arg |-> "", obs_type |-> "", check |-> ""]
NoExit == [done |-> FALSE, exc |-> NoErr, propagated |-> NoErr]

\* ------------------------------------------------------------------------
\* Construction and session lifecycle (client.py)
\* ------------------------------------------------------------------------
\* timeout arguments a caller gives: none, zero, ten seconds
TimeoutArgs == {NoTimeout, 0, 10}
\* total timeout of a session the caller builds itself
EXTERNAL_TIMEOUT == 3

ClientSession(creator, t) ==
    [creator |-> creator, timeout |-> t, closed |-> FALSE, closed_by |-> ""]

\* `timeout or 30.0`: None and 0 are falsy
TimeoutOrDefault(t) == IF t = NoTimeout \/ t = 0 THEN DEFAULT_TIMEOUT ELSE t

\* Vigicrues.__init__(session, timeout)
Vigicrues_init(external, t) ==
    /\ sessions = IF external
                     THEN <<ClientSession("external", EXTERNAL_TIMEOUT)>>
                     ELSE <<>>
    /\ session = IF external THEN 1 ELSE NoSession
    /\ owns_session = (~external)
    /\ timeout_arg = t
    /\ timeout = TimeoutOrDefault(t)
    /\ enters = 0
    /\ exits = 0
    /\ exit_result = NoExit
    /\ pc = "idle"
    /\ call = NoCall
    /\ requests = <<>>
    /\ response = NoResponse
    /\ stations = <<>>
    /\ idx = 0
    /\ detail_results = <<>>
    /\ valid_full_stations = <<>>
    /\ outcome = NoOutcome

\* cli.get at the given position, before its first call
cli_at(position, station_id) ==
    /\ cli_pc = position
    /\ cli_args = station_id
    /\ cli_calls = <<>>
    /\ cli_results = <<>>
    /\ cli_printed = <<>>
    /\ cli_raised = NoErr

\* the library used by a program of its own, for both kinds of caller: the
\* command line is not running
Init ==
    \E external \in BOOLEAN, t \in TimeoutArgs :
        Vigicrues_init(external, t) /\ cli_at("off", "")

\* session.close(): idempotent, the first closer is remembered
Close(ss, i, who) ==
    IF ss[i].closed THEN ss
    ELSE [ss EXCEPT ![i].closed = TRUE, ![i].closed_by = who]

\* an entry that creates a session whether or not one was given
EnterCreatesAlways == TRUE

\* `if self._owns_session` in __aenter__
EnterCreates == owns_session

\* Vigicrues.__aenter__
aenter ==
    /\ pc = "idle"
    /\ enters < MaxEnters
    /\ enters' = enters + 1
    /\ IF EnterCreates
         THEN /\ sessions' = Append(sessions, ClientSession("facade", timeout))
              /\ session' = Len(sessions) + 1
         ELSE UNCHANGED <<sessions, session>>
    /\ exit_result' = NoExit
    /\ UNCHANGED <<owns_session, timeout, timeout_arg, exits>>
    /\ UNCHANGED <<callVars, cliVars>>

\* an exit that closes whatever session it holds
ExitClosesAnySession == session # NoSession

\* an exit that releases the session only when the body ended normally
ExitClosesOnSuccessOnly == owns_session /\ session # NoSession /\ outcome.kind # "raise"

\* the condition under which __aexit__ closes the session
ExitCloses == owns_session /\ session # NoSession

\* the value __aexit__ returns: None, so the exception is not suppressed
ExitSuppresses == FALSE

\* the exception an `async with` block hands to __aexit__: the one its body
\* raised, or none
PendingExc == IF outcome.kind = "raise" THEN outcome.error ELSE NoErr

\* an exit that forgets the session it has closed
SessionAfterExitForgotten == IF ExitCloses THEN NoSession ELSE session

\* self._session after __aexit__: the method does not assign it
SessionAfterExit == session

\* Vigicrues.__aexit__(exc_type, exc_val, exc_tb)
aexit ==
    /\ pc = "idle"
    /\ exits < MaxEnters
    /\ exits' = exits + 1
    /\ exit_result' = [done |-> TRUE, exc |-> PendingExc,
                       propagated |-> IF ExitSuppresses THEN NoErr ELSE PendingExc]
    /\ sessions' = IF ExitCloses THEN Close(sessions, session, "facade")
                   ELSE sessions
    /\ session' = SessionAfterExit
    /\ UNCHANGED <<owns_session, timeout, timeout_arg, enters>>
    /\ UNCHANGED <<callVars, cliVars>>

\* the caller that built an external session closes it itself
CloseExternal ==
    /\ pc = "idle"
    /\ ~owns_session
    /\ ~sessions[1].closed
    /\ sessions' = Close(sessions, 1, "owner")
    /\ exit_result' = NoExit
    /\ UNCHANGED <<session, owns_session, timeout, timeout_arg, enters, exits>>
    /\ UNCHANGED <<callVars, cliVars>>

\* ------------------------------------------------------------------------
\* Transport: self._session.get(...) and the upstream answer
\* ------------------------------------------------------------------------
NoReq == [endpoint |-> "", id |-> "", typ |-> ""]
Fails(e) == [err |-> e, req |-> NoReq]
Sends(r) == [err |-> NoErr, req |-> r]

\* an operation without its session guard
SessionMissingUnchecked == FALSE

\* `if self._session is None`
SessionMissing == session = NoSession

SessionNotInitialized == Err("RuntimeError", <<"Session is not initialized">>)

\* self._session.get(url, params=params): attribute access on None fails,
\* a closed aiohttp session refuses the request, an open one sends it
session_get(req) ==
    IF session = NoSession
    THEN Fails(Err("AttributeError", <<"'NoneType' object has no attribute 'get'">>))
    ELSE IF sessions[session].closed
    THEN Fails(Err("RuntimeError", <<"Session is closed">>))
    ELSE Sends(req)

\* what the transport can hand back for one request
Transport(bodies) ==
    {[kind |-> "conn_error", status |-> 0, body |-> <<>>]}
    \cup {[kind |-> "response", status |-> st, body |-> <<>>] : st \in {500}}
    \cup {[kind |-> "response", status |-> 200, body |-> b] : b \in bodies}

\* an operation that reports an HTTP error status as an error of its own
raise_for_status_wrapped(resp) ==
    IF resp.kind = "conn_error"
    THEN Err("ClientConnectionError", <<"Connection refused">>)
    ELSE IF resp.status >= 400
    THEN Err("ValueError", <<"status">>)
    ELSE NoErr

\* entering `async with ... as response` and response.raise_for_status()
raise_for_status(resp) ==
    IF resp.kind = "conn_error"
    THEN Err("ClientConnectionError", <<"Connection refused">>)
    ELSE IF resp.status >= 400
    THEN Err("ClientResponseError", <<"status">>)
    ELSE NoErr

\* pydantic validation of a model with required string fields id and name
\* (Territory, Troncon, Station)
IdName(id, name) ==
    IF id = NULL \/ name = NULL
    THEN Raised(Err("ValidationError", <<"Input should be a valid string">>))
    ELSE Returned(<<[id |-> id, name |-> name]>>)

\* ------------------------------------------------------------------------
\* DiscoveryClient (discovery.py)
\* ------------------------------------------------------------------------
Queries == {"", "Sulpice"}

\* the kinds of record the catalog returns: active (closure date absent or
\* null), closed, and records lacking the identifier, the name or both
CatalogRecord(cd, lb, dt) ==
    [cdstationhydro |-> cd, lbstationhydro |-> lb, dtfermeturestationhydro |-> dt]
CatalogRecords ==
    {CatalogRecord("S1", "N1", ABSENT), CatalogRecord("S2", "N2", NULL),
     CatalogRecord("S1", "N1", "2020-01-01"),
     CatalogRecord(ABSENT, "N1", ABSENT), CatalogRecord("S1", ABSENT, "2020-01-01"),
     CatalogRecord(ABSENT, ABSENT, ABSENT)}

CatalogBodies ==
    {[isdict |-> d, has_results |-> FALSE, results |-> <<>>] : d \in BOOLEAN}
    \cup {[isdict |-> TRUE, has_results |-> TRUE, results |-> r] :
             r \in SeqUpTo(CatalogRecords, MaxResults)}

\* a filter on the presence of the closure key instead of its value
process_station_result_key_present(station_data) ==
    IF station_data.cdstationhydro = ABSENT \/ station_data.lbstationhydro = ABSENT
    THEN Raised(Err("ValueError", <<"Invalid station data">>))
    ELSE IF station_data.dtfermeturestationhydro # ABSENT
    THEN NoOutcome
    ELSE IdName(station_data.cdstationhydro, station_data.lbstationhydro)

\* a processing that drops closed stations before it looks for the keys
process_station_result_filter_first(station_data) ==
    IF Get(station_data.dtfermeturestationhydro) # NULL
    THEN NoOutcome
    ELSE IF station_data.cdstationhydro = ABSENT \/ station_data.lbstationhydro = ABSENT
    THEN Raised(Err("ValueError", <<"Invalid station data">>))
    ELSE IdName(station_data.cdstationhydro, station_data.lbstationhydro)

\* DiscoveryClient._process_station_result: kind "raise", "none" (closed
\* station) or "return" with the Station
process_station_result(station_data) ==
    IF station_data.cdstationhydro = ABSENT \/ station_data.lbstationhydro = ABSENT
    THEN Raised(Err("ValueError", <<"Invalid station data">>))
    ELSE IF Get(station_data.dtfermeturestationhydro) # NULL
    THEN NoOutcome
    ELSE IdName(station_data.cdstationhydro, station_data.lbstationhydro)

\* the list comprehension over results: the first record that raises ends it
RECURSIVE station_list(_)
station_list(results) ==
    IF results = <<>> THEN Returned(<<>>)
    ELSE LET first == process_station_result(Head(results)) IN
         IF first.kind = "raise" THEN first
         ELSE LET rest == station_list(Tail(results)) IN
              IF rest.kind = "raise" THEN rest
              ELSE Returned(first.value \o rest.value)

\* DiscoveryClient.search_stations up to the request
discovery_begin(query) ==
    IF Falsy(query) THEN Fails(Err("ValueError", <<"Query cannot be empty">>))
    ELSE IF SessionMissing THEN Fails(SessionNotInitialized)
    ELSE session_get([endpoint |-> "records", id |-> query, typ |-> ""])

\* DiscoveryClient.search_stations from the response on
discovery_end(resp) ==
    IF raise_for_status(resp) # NoErr THEN Raised(raise_for_status(resp))
    ELSE IF ~resp.body.isdict THEN Raised(Err("ValueError", <<"Got invalid data">>))
    ELSE station_list(IF resp.body.has_results THEN resp.body.results ELSE <<>>)

\* ------------------------------------------------------------------------
\* VigicruesClient (vigicrues.py)
\* ------------------------------------------------------------------------
Ids == {"", "S1"}
ObsTypes == {"H", "Q", "X", "", "h"}

TerritoryRecords == [CdEntVigiCru : {ABSENT, "25", "26"}, LbEntVigiCru : {"Garonne-Tarn-Lot"}]
TerritoryBodies == [ListEntVigiCru : SeqUpTo(TerritoryRecords, MaxChildren)]

ChildRecord(cd, lb) == [CdEntVigiCruInferieur |-> cd, LbEntVigiCruInferieur |-> lb]
ChildRecords ==
    {ChildRecord("C1", "Tarn aval"), ChildRecord("C2", "Tarn amont"),
     ChildRecord("C1", ABSENT)}

\* the ways of giving each of n children, in order, to one of k parents
Monotone(n, k) ==
    {f \in [1..n -> 1..k] : \A i \in 1..n, j \in 1..n : i <= j => f[i] <= f[j]}

\* the children that f gives to parent p, in order
RECURSIVE ChildrenOf(_, _, _, _)
ChildrenOf(c, f, p, i) ==
    IF i > Len(c) THEN <<>>
    ELSE (IF f[i] = p THEN <<c[i]>> ELSE <<>>) \o ChildrenOf(c, f, p, i + 1)

\* hierarchy answers: at most MaxParents entries holding at most MaxChildren
\* children in all
ChildrenBodies ==
    {[ListEntVigiCru |-> <<>>]}
    \cup UNION {UNION {{[ListEntVigiCru |->
                            [p \in 1..k |-> [aNMoinsUn |-> ChildrenOf(c, f, p, 1)]]] :
                         f \in Monotone(Len(c), k)} :
                      c \in SeqUpTo(ChildRecords, MaxChildren)} :
                k \in 1..MaxParents}

\* the loop building one model per record: the first invalid record raises
RECURSIVE model_list(_, _, _)
model_list(records, idkey, namekey) ==
    IF records = <<>> THEN Returned(<<>>)
    ELSE LET first == IdName(Get(Head(records)[idkey]), Get(Head(records)[namekey])) IN
         IF first.kind = "raise" THEN first
         ELSE LET rest == model_list(Tail(records), idkey, namekey) IN
              IF rest.kind = "raise" THEN rest
              ELSE Returned(first.value \o rest.value)

\* nested loops that start with the last parent entry
RECURSIVE flatten_last_parent_first(_)
flatten_last_parent_first(parents) ==
    IF parents = <<>> THEN <<>>
    ELSE flatten_last_parent_first(Tail(parents)) \o Head(parents).aNMoinsUn

\* the nested loops over ListEntVigiCru and aNMoinsUn, as one flat list
RECURSIVE flatten(_)
flatten(parents) ==
    IF parents = <<>> THEN <<>>
    ELSE Head(parents).aNMoinsUn \o flatten(Tail(parents))

\* VigicruesClient.get_territories up to the request
get_territories_begin ==
    IF SessionMissing THEN Fails(SessionNotInitialized)
    ELSE session_get([endpoint |-> "TerEntVigiCru.json", id |-> "", typ |-> ""])

\* VigicruesClient.get_territories from the response on
get_territories_end(resp) ==
    IF raise_for_status(resp) # NoErr THEN Raised(raise_for_status(resp))
    ELSE model_list(resp.body.ListEntVigiCru, "CdEntVigiCru", "LbEntVigiCru")

\* VigicruesClient.get_troncons up to the request
get_troncons_begin(territory_id) ==
    IF Falsy(territory_id)
    THEN Fails(Err("ValueError", <<"Territory ID cannot be empty">>))
    ELSE IF SessionMissing THEN Fails(SessionNotInitialized)
    ELSE session_get([endpoint |-> "v1.1/TerEntVigiCru.json",
                      id |-> territory_id, typ |-> "5"])

\* VigicruesClient.get_troncons from the response on
get_troncons_end(resp) ==
    IF raise_for_status(resp) # NoErr THEN Raised(raise_for_status(resp))
    ELSE model_list(flatten(resp.body.ListEntVigiCru),
                    "CdEntVigiCruInferieur", "LbEntVigiCruInferieur")

\* VigicruesClient.get_troncon_stations up to the request
get_troncon_stations_begin(troncon_id) ==
    IF Falsy(troncon_id)
    THEN Fails(Err("ValueError", <<"Troncon ID cannot be empty">>))
    ELSE IF SessionMissing THEN Fails(SessionNotInitialized)
    ELSE session_get([endpoint |-> "v1.1/TronEntVigiCru.json",
                      id |-> troncon_id, typ |-> "8"])

\* VigicruesClient.get_troncon_stations from the response on
get_troncon_stations_end(resp) ==
    IF raise_for_status(resp) # NoErr THEN Raised(raise_for_status(resp))
    ELSE model_list(flatten(resp.body.ListEntVigiCru),
                    "CdEntVigiCruInferieur", "LbEntVigiCruInferieur")

\* ---- station details ----
\* the CoordStationHydro part of a station document: a coordinate absent,
\* null or empty, one that is no number, both of these, and the reference pair
CoordDoc(x, y) == [CoordXStationHydro |-> x, CoordYStationHydro |-> y]
CoordDocs ==
    {CoordDoc(ABSENT, "6325598"), CoordDoc("", "6325598"), CoordDoc("567613", NULL),
     CoordDoc("abc", "6325598"), CoordDoc("567613", "abc"), CoordDoc("abc", NULL),
     CoordDoc("567613", "6325598")}

\* the VigilanceCrues part of a station document: not given, or given with a
\* photo, the prediction flag, one historical flood and one related station
VigilanceDocs ==
    {[given |-> FALSE, Photo |-> "", StationPrevision |-> FALSE,
      CruesHistoriques |-> <<>>, StationsBassin |-> <<>>],
     [given |-> TRUE, Photo |-> "t", StationPrevision |-> TRUE,
      CruesHistoriques |-> <<"Crue du 03/03/1930">>,
      StationsBassin |-> <<"O598101001">>]}

\* a station document; CdStationHydro is the code the document itself gives
DetailDocs ==
    [CdStationHydro : {"O000000000"},
     LbStationHydro : {ABSENT, "Le Tarn"},
     LbCoursEau : {"Tarn"},
     CdCommune : {"81220"},
     CoordStationHydro : CoordDocs,
     VigilanceCrues : VigilanceDocs]

\* the station documents the checked search is answered with: those that
\* carry the VigilanceCrues part
SearchDetailDocs == {d \in DetailDocs : d.VigilanceCrues.given}

\* float(s): the numerals that occur in the documents; anything else fails
NotAFloat == -1
float(str) ==
    CASE str = "567613" -> 567613
      [] str = "6325598" -> 6325598
      [] OTHER -> NotAFloat

\* a float that stands for degrees: whole degrees and millionths of a degree
Degrees(whole, millionths) == [whole |-> whole, millionths |-> millionths]

\* TRANSFORMER.transform(x, y), Lambert-93 to WGS84 with always_xy:
\* (longitude, latitude)
transform(x, y) ==
    IF x = 567613 /\ y = 6325598
    THEN <<Degrees(1, 348806), Degrees(44, 16925)>>
    ELSE <<Degrees(0, 0), Degrees(0, 0)>>

\* an extraction that looks for a missing value in the x coordinate only
extract_coordinates_x_checked(coord_data, station_id) ==
    LET x_str == Get(coord_data.CoordXStationHydro)
        y_str == Get(coord_data.CoordYStationHydro)
    IN  IF Falsy(x_str)
        THEN Raised(Err("ValueError", <<"Missing coordinates for station ", station_id>>))
        ELSE IF float(x_str) = NotAFloat \/ float(y_str) = NotAFloat
        THEN Raised(Err("ValueError", <<"Invalid coordinate format: ", x_str, y_str>>))
        ELSE LET lonlat == transform(float(x_str), float(y_str))
             IN  Returned(<<lonlat[2], lonlat[1]>>)

\* an extraction that returns the pair as the transform gives it
extract_coordinates_as_transformed(coord_data, station_id) ==
    LET x_str == Get(coord_data.CoordXStationHydro)
        y_str == Get(coord_data.CoordYStationHydro)
    IN  IF Falsy(x_str) \/ Falsy(y_str)
        THEN Raised(Err("ValueError", <<"Missing coordinates for station ", station_id>>))
        ELSE IF float(x_str) = NotAFloat \/ float(y_str) = NotAFloat
        THEN Raised(Err("ValueError", <<"Invalid coordinate format: ", x_str, y_str>>))
        ELSE Returned(transform(float(x_str), float(y_str)))

\* VigicruesClient.extract_coordinates: the pair (latitude, longitude)
extract_coordinates(coord_data, station_id) ==
    LET x_str == Get(coord_data.CoordXStationHydro)
        y_str == Get(coord_data.CoordYStationHydro)
    IN  IF Falsy(x_str) \/ Falsy(y_str)
        THEN Raised(Err("ValueError", <<"Missing coordinates for station ", station_id>>))
        ELSE IF float(x_str) = NotAFloat \/ float(y_str) = NotAFloat
        THEN Raised(Err("ValueError", <<"Invalid coordinate format: ", x_str, y_str>>))
        ELSE LET lonlat == transform(float(x_str), float(y_str))
             IN  Returned(<<lonlat[2], lonlat[1]>>)

\* pydantic validation of StationDetails: name, river and city are required strings
StationDetails(d) ==
    IF d.id = NULL \/ d.name = NULL \/ d.river = NULL \/ d.city = NULL
    THEN Raised(Err("ValidationError", <<"Input should be a valid string">>))
    ELSE Returned(<<d>>)

\* VigicruesClient.get_station_details up to the request
get_station_details_begin(station_id) ==
    IF Falsy(station_id)
    THEN Fails(Err("ValueError", <<"Station ID cannot be empty">>))
    ELSE IF SessionMissing THEN Fails(SessionNotInitialized)
    ELSE session_get([endpoint |-> "station.json/index.php",
                      id |-> station_id, typ |-> ""])

\* details that take their identifier from the document
details_id_from_document(station_id, data) == data.CdStationHydro

\* `id=station_id`
details_id(station_id, data) == station_id

\* VigicruesClient.get_station_details from the response on
get_station_details_end(station_id, resp) ==
    IF raise_for_status(resp) # NoErr THEN Raised(raise_for_status(resp))
    ELSE LET data == resp.body
             station_data == data.VigilanceCrues
             coord_data == data.CoordStationHydro
             coords == extract_coordinates(coord_data, station_id)
         IN  IF coords.kind = "raise" THEN coords
             ELSE StationDetails(
                    [id |-> details_id(station_id, data),
                     name |-> Get(data.LbStationHydro),
                     river |-> Get(data.LbCoursEau),
                     city |-> Get(data.CdCommune),
                     latitude |-> coords.value[1],
                     longitude |-> coords.value[2],
                     picture_url |-> IF station_data.given
                                     THEN station_data.Photo ELSE NULL,
                     commune_code |-> Get(data.CdCommune),
                     is_prediction_station |-> station_data.StationPrevision,
                     has_height_data |-> TRUE,
                     has_flow_data |-> TRUE,
                     has_predictions |-> station_data.StationPrevision,
                     historical_floods |-> station_data.CruesHistoriques,
                     related_stations |-> station_data.StationsBassin])

\* ---- observations ----
ObsRecords ==
    [DtObsHydro : {"2026-02-12T11:00:00+00:00", "2026-02-12T11:15:00+00:00"},
     ResObsHydro : {541, 1200}]
ObsBodies ==
    {[has_serie |-> FALSE, ObssHydro |-> <<>>]}
    \cup {[has_serie |-> TRUE, ObssHydro |-> o] : o \in SeqUpTo(ObsRecords, MaxObs)}

\* a membership test that ignores case
ObsTypeAllowedAnyCase(obs_type) == obs_type \in {"H", "Q", "h", "q"}

\* `obs_type in ["H", "Q"]`
ObsTypeAllowed(obs_type) == obs_type \in {"H", "Q"}

\* the same guards in the opposite order: session, obs_type, station id
get_latest_observations_begin_reversed(station_id, obs_type) ==
    IF SessionMissing THEN Fails(SessionNotInitialized)
    ELSE IF ~ObsTypeAllowed(obs_type)
    THEN Fails(Err("ValueError", <<"obs_type must be 'H' (height) or 'Q' (flow)">>))
    ELSE IF Falsy(station_id)
    THEN Fails(Err("ValueError", <<"Station ID cannot be empty">>))
    ELSE session_get([endpoint |-> "observations.json/index.php",
                      id |-> station_id, typ |-> obs_type])

\* VigicruesClient.get_latest_observations up to the request
get_latest_observations_begin(station_id, obs_type) ==
    IF Falsy(station_id)
    THEN Fails(Err("ValueError", <<"Station ID cannot be empty">>))
    ELSE IF ~ObsTypeAllowed(obs_type)
    THEN Fails(Err("ValueError", <<"obs_type must be 'H' (height) or 'Q' (flow)">>))
    ELSE IF SessionMissing THEN Fails(SessionNotInitialized)
    ELSE session_get([endpoint |-> "observations.json/index.php",
                      id |-> station_id, typ |-> obs_type])

\* the last-entry access without the emptiness guard
EmptySeriesUnchecked == Err("IndexError", <<"list index out of range">>)

\* `if not observations: raise ValueError("No observations found")`
EmptySeries == Err("ValueError", <<"No observations found">>)

\* datetime.fromisoformat(s) for the timestamps upstream sends: the date, the
\* minute of the day and the UTC offset in minutes
fromisoformat(str) ==
    CASE str = "2026-02-12T11:00:00+00:00"
           -> [date |-> "2026-02-12", minute |-> 660, utcoffset |-> 0]
      [] str = "2026-02-12T11:15:00+00:00"
           -> [date |-> "2026-02-12", minute |-> 675, utcoffset |-> 0]

\* a selection by timestamp: the entry no other entry is later than
newest_by_timestamp(observations) ==
    observations[CHOOSE i \in 1..Len(observations) :
                   \A j \in 1..Len(observations) :
                     /\ fromisoformat(observations[j].DtObsHydro).minute
                          <= fromisoformat(observations[i].DtObsHydro).minute
                     /\ (fromisoformat(observations[j].DtObsHydro).minute
                          = fromisoformat(observations[i].DtObsHydro).minute => i <= j)]

\* `observations[-1]`
last_in_list(observations) == observations[Len(observations)]

\* `"m" if obs_type == "H" else "m3/s"` (the code writes the cube as a superscript)
unit_of(obs_type) == IF obs_type = "H" THEN "m" ELSE "m3/s"

\* VigicruesClient.get_latest_observations from the response on
get_latest_observations_end(obs_type, resp) ==
    IF raise_for_status(resp) # NoErr THEN Raised(raise_for_status(resp))
    ELSE LET observations == IF resp.body.has_serie THEN resp.body.ObssHydro ELSE <<>>
         IN  IF observations = <<>>
             THEN Raised(EmptySeries)
             ELSE LET latest_observation == last_in_list(observations)
                  IN  Returned(<<[timestamp |-> fromisoformat(latest_observation.DtObsHydro),
                                  value |-> latest_observation.ResObsHydro,
                                  type |-> obs_type,
                                  unit |-> unit_of(obs_type)]>>)

\* ------------------------------------------------------------------------
\* The operations as steps: the call up to its request, then the answer
\* ------------------------------------------------------------------------
Call(o, a, t, c) == [op |-> o, arg |-> a, obs_type |-> t, check |-> c]

\* first step of an operation: it raises at once or leaves one request pending
Start(c, b, next) ==
    /\ pc = "idle"
    /\ call' = c
    /\ response' = NoResponse
    /\ stations' = <<>>
    /\ idx' = 0
    /\ detail_results' = <<>>
    /\ valid_full_stations' = <<>>
    /\ exit_result' = NoExit
    /\ IF b.err # NoErr
         THEN pc' = "idle" /\ requests' = <<>> /\ outcome' = Raised(b.err)
         ELSE pc' = next /\ requests' = <<b.req>> /\ outcome' = NoOutcome
    /\ UNCHANGED <<lifeVars, cliVars>>

\* last step of a single-request operation
Finish(resp, out) ==
    /\ pc' = "idle"
    /\ response' = resp
    /\ outcome' = out
    /\ UNCHANGED <<call, requests, stations, idx, detail_results,
                   valid_full_stations, exit_result>>
    /\ UNCHANGED <<lifeVars, cliVars>>

discovery_search_call ==
    \E query \in Queries :
        Start(Call("DiscoveryClient.search_stations", query, "", ""),
              discovery_begin(query), "discovery_search")

discovery_search_respond ==
    /\ pc = "discovery_search"
    /\ \E resp \in Transport(CatalogBodies) : Finish(resp, discovery_end(resp))

get_territories_call ==
    Start(Call("get_territories", "", "", ""), get_territories_begin, "get_territories")

get_territories_respond ==
    /\ pc = "get_territories"
    /\ \E resp \in Transport(TerritoryBodies) : Finish(resp, get_territories_end(resp))

get_troncons_call ==
    \E territory_id \in Ids :
        Start(Call("get_troncons", territory_id, "", ""),
              get_troncons_begin(territory_id), "get_troncons")

get_troncons_respond ==
    /\ pc = "get_troncons"
    /\ \E resp \in Transport(ChildrenBodies) : Finish(resp, get_troncons_end(resp))

get_troncon_stations_call ==
    \E troncon_id \in Ids :
        Start(Call("get_troncon_stations", troncon_id, "", ""),
              get_troncon_stations_begin(troncon_id), "get_troncon_stations")

get_troncon_stations_respond ==
    /\ pc = "get_troncon_stations"
    /\ \E resp \in Transport(ChildrenBodies) :
          Finish(resp, get_troncon_stations_end(resp))

get_station_details_call ==
    \E station_id \in Ids :
        Start(Call("get_station_details", station_id, "", ""),
              get_station_details_begin(station_id), "get_station_details")

get_station_details_respond ==
    /\ pc = "get_station_details"
    /\ \E resp \in Transport(DetailDocs) :
          Finish(resp, get_station_details_end(call.arg, resp))

get_latest_observations_call ==
    \E station_id \in Ids, obs_type \in ObsTypes :
        Start(Call("get_latest_observations", station_id, obs_type, ""),
              get_latest_observations_begin(station_id, obs_type),
              "get_latest_observations")

get_latest_observations_respond ==
    /\ pc = "get_latest_observations"
    /\ \E resp \in Transport(ObsBodies) :
          Finish(resp, get_latest_observations_end(call.obs_type, resp))

\* ------------------------------------------------------------------------
\* Vigicrues.search_stations (client.py)
\* ------------------------------------------------------------------------
\* how a caller passes check: not at all, True or False
Checks == {"omitted", "true", "false"}

\* the default of the check parameter in the implementation's signature
CHECK_DEFAULT == TRUE

\* a search that pays no attention to the check argument
CheckValueIgnored(c) == CHECK_DEFAULT

\* the value of check inside search_stations
CheckValue(c) == IF c = "omitted" THEN CHECK_DEFAULT ELSE c = "true"

\* an except clause that catches connection errors only
IgnoredConnectionOnly(e) == IsInstance(e, "ClientConnectionError")

\* an except clause that catches every exception
IgnoredAnyException(e) == TRUE

\* `except aiohttp.ClientError: continue`
Ignored(e) == IsInstance(e, "ClientError")

\* a loop that keeps the discovery summary
append_summary(full, station, full_station) == Append(full, station)

\* `valid_full_stations.append(full_station)`
append_full(full, station, full_station) == Append(full, full_station)

\* the for loop from hit i on, up to its next request: it returns the list,
\* raises, or leaves the detail request for some hit pending
RECURSIVE detail_loop(_, _, _)
detail_loop(st, i, full) ==
    IF i > Len(st)
    THEN [pc |-> "idle", idx |-> i, req |-> NoReq, outcome |-> Returned(full)]
    ELSE LET b == get_station_details_begin(st[i].id) IN
         IF b.err = NoErr
         THEN [pc |-> "search_detail", idx |-> i, req |-> b.req, outcome |-> NoOutcome]
         ELSE IF Ignored(b.err) THEN detail_loop(st, i + 1, full)
         ELSE [pc |-> "idle", idx |-> i, req |-> NoReq, outcome |-> Raised(b.err)]

\* a loop that sends the detail requests of all remaining hits together
ResumeAllAtOnce(st, i, full, results, resp) ==
    LET l == detail_loop(st, i, full)
        rest == [k \in 1..(Len(st) + 1 - l.idx) |->
                    [endpoint |-> "station.json/index.php",
                     id |-> st[l.idx + k - 1].id, typ |-> ""]]
    IN
    /\ pc' = l.pc
    /\ idx' = l.idx
    /\ outcome' = l.outcome
    /\ requests' = IF l.req = NoReq THEN requests ELSE requests \o rest
    /\ stations' = st
    /\ valid_full_stations' = full
    /\ detail_results' = results
    /\ response' = resp
    /\ UNCHANGED <<call, exit_result>>
    /\ UNCHANGED <<lifeVars, cliVars>>

\* the loop resumes at hit i with the given collected list
Resume(st, i, full, results, resp) ==
    LET l == detail_loop(st, i, full) IN
    /\ pc' = l.pc
    /\ idx' = l.idx
    /\ outcome' = l.outcome
    /\ requests' = IF l.req = NoReq THEN requests ELSE Append(requests, l.req)
    /\ stations' = st
    /\ valid_full_stations' = full
    /\ detail_results' = results
    /\ response' = resp
    /\ UNCHANGED <<call, exit_result>>
    /\ UNCHANGED <<lifeVars, cliVars>>

search_stations_call ==
    \E query \in Queries, check \in Checks :
        Start(Call("Vigicrues.search_stations", query, "", check),
              discovery_begin(query), "search_catalog")

\* super().search_stations(query) answers; then `if not check` and the
\* start of the loop
search_stations_catalog ==
    /\ pc = "search_catalog"
    /\ \E resp \in Transport(CatalogBodies) :
          LET found == discovery_end(resp) IN
          IF found.kind = "raise" THEN Finish(resp, found)
          ELSE IF ~CheckValue(call.check)
          THEN /\ stations' = found.value
               /\ pc' = "idle"
               /\ response' = resp
               /\ outcome' = Returned(found.value)
               /\ UNCHANGED <<call, requests, idx, detail_results,
                              valid_full_stations, exit_result>>
               /\ UNCHANGED <<lifeVars, cliVars>>
          ELSE Resume(found.value, 1, <<>>, <<>>, NoResponse)

\* get_station_details(station.id) answers for the hit at idx
search_stations_detail ==
    /\ pc = "search_detail"
    /\ \E resp \in Transport(SearchDetailDocs) :
          LET full_station == get_station_details_end(stations[idx].id, resp)
              results == Append(detail_results, full_station)
          IN  IF full_station.kind = "raise"
              THEN IF Ignored(full_station.error)
                   THEN Resume(stations, idx + 1, valid_full_stations, results, NoResponse)
                   ELSE /\ pc' = "idle"
                        /\ outcome' = full_station
                        /\ detail_results' = results
                        /\ response' = NoResponse
                        /\ UNCHANGED <<call, requests, stations, idx,
                                       valid_full_stations, exit_result>>
                        /\ UNCHANGED <<lifeVars, cliVars>>
              ELSE Resume(stations, idx + 1,
                          append_full(valid_full_stations, stations[idx],
                                      full_station.value[1]),
                          results, NoResponse)

Next ==
    \/ aenter
    \/ aexit
    \/ CloseExternal
    \/ discovery_search_call
    \/ discovery_search_respond
    \/ get_territories_call
    \/ get_territories_respond
    \/ get_troncons_call
    \/ get_troncons_respond
    \/ get_troncon_stations_call
    \/ get_troncon_stations_respond
    \/ get_station_details_call
    \/ get_station_details_respond
    \/ get_latest_observations_call
    \/ get_latest_observations_respond
    \/ search_stations_call
    \/ search_stations_catalog
    \/ search_stations_detail

Spec == Init /\ [][Next]_vars

\* ------------------------------------------------------------------------
\* The get command (cli.py), run on any client that answers as a Vigicrues
\* client may: cli.get takes its client as a parameter
\* ------------------------------------------------------------------------
CliIds == {"O408101001", "O494101001"}

\* what `await client.get_station_details(...)` can give: details with either
\* flag set or not, or an error
CliDetailsOutcomes ==
    {Returned(<<[id |-> i, name |-> "Montauban", river |-> "Tarn", city |-> "82121",
                 has_height_data |-> h, has_flow_data |-> q]>>) :
        i \in CliIds, h \in BOOLEAN, q \in BOOLEAN}
    \cup {Raised(Err("ClientResponseError", <<"status">>)),
          Raised(Err("ClientConnectionError", <<"Connection refused">>)),
          Raised(Err("ValueError", <<"Missing coordinates for station ">>))}

\* what `await client.get_latest_observations(...)` can give
CliObservationOutcomes(obs_type) ==
    {Returned(<<[value |-> v, type |-> obs_type, unit |-> unit_of(obs_type)]>>) :
        v \in {541, 1200}}
    \cup {Raised(EmptySeries),
          Raised(Err("ClientResponseError", <<"status">>)),
          Raised(Err("ClientConnectionError", <<"Connection refused">>))}

CliCall(method, station_id, obs_type) ==
    [method |-> method, station_id |-> station_id, obs_type |-> obs_type]

\* a command whose observation requests stop at the first failure
ObservationsNotFoundNever(e) == FALSE

\* `except aiohttp.ClientResponseError` around get_station_details
StationNotFound(e) == IsInstance(e, "ClientResponseError")

\* `except ValueError` around each get_latest_observations
ObservationsNotFound(e) == IsInstance(e, "ValueError")

\* the command is run: it calls get_station_details(args.station_id)
cli_get ==
    /\ cli_pc = "start"
    /\ cli_calls' = <<CliCall("get_station_details", cli_args, "")>>
    /\ cli_pc' = "details"
    /\ UNCHANGED <<cli_args, cli_results, cli_printed, cli_raised>>
    /\ UNCHANGED <<lifeVars, callVars, exit_result>>

\* cli.get goes on to its flow request, or ends
cli_to_flow(details, results, printed) ==
    /\ cli_results' = results
    /\ cli_printed' = printed
    /\ cli_raised' = NoErr
    /\ IF details.has_flow_data
         THEN /\ cli_calls' = Append(cli_calls,
                                    CliCall("get_latest_observations", details.id, "Q"))
              /\ cli_pc' = "flow"
         ELSE /\ cli_calls' = cli_calls
              /\ cli_pc' = "done"

\* an exception leaves cli.get
cli_raise(e, results) ==
    /\ cli_results' = results
    /\ cli_raised' = e
    /\ cli_pc' = "done"
    /\ UNCHANGED <<cli_calls, cli_printed>>

\* get_station_details answers
cli_get_details ==
    /\ cli_pc = "details"
    /\ \E out \in CliDetailsOutcomes :
          LET results == Append(cli_results, out) IN
          IF out.kind = "raise"
          THEN IF StationNotFound(out.error)
               THEN /\ cli_results' = results
                    /\ cli_printed' = <<"Impossible to trouver la station">>
                    /\ cli_pc' = "done"
                    /\ UNCHANGED <<cli_calls, cli_raised>>
               ELSE cli_raise(out.error, results)
          ELSE LET details == out.value[1]
                   printed == <<"Station", "River", "City", "Coordinates">>
               IN  IF details.has_height_data
                   THEN /\ cli_results' = results
                        /\ cli_printed' = printed
                        /\ cli_calls' = Append(cli_calls,
                              CliCall("get_latest_observations", details.id, "H"))
                        /\ cli_pc' = "height"
                        /\ UNCHANGED cli_raised
                   ELSE cli_to_flow(details, results, printed)
    /\ UNCHANGED cli_args
    /\ UNCHANGED <<lifeVars, callVars, exit_result>>

\* get_latest_observations(details.id, "H") answers
cli_get_height ==
    /\ cli_pc = "height"
    /\ \E out \in CliObservationOutcomes("H") :
          LET results == Append(cli_results, out)
              details == cli_results[1].value[1]
          IN  IF out.kind = "raise"
              THEN IF ObservationsNotFound(out.error)
                   THEN cli_to_flow(details, results,
                          Append(cli_printed, "Latest water level: No observations found"))
                   ELSE cli_raise(out.error, results)
              ELSE cli_to_flow(details, results,
                               Append(cli_printed, "Latest water level"))
    /\ UNCHANGED cli_args
    /\ UNCHANGED <<lifeVars, callVars, exit_result>>

\* get_latest_observations(details.id, "Q") answers
cli_get_flow ==
    /\ cli_pc = "flow"
    /\ \E out \in CliObservationOutcomes("Q") :
          LET results == Append(cli_results, out) IN
          IF out.kind = "raise" /\ ~ObservationsNotFound(out.error)
          THEN cli_raise(out.error, results)
          ELSE /\ cli_results' = results
               /\ cli_printed' = Append(cli_printed,
                     IF out.kind = "raise"
                     THEN "Latest flow rate: No observations found"
                     ELSE "Latest flow rate")
               /\ cli_pc' = "done"
               /\ UNCHANGED <<cli_calls, cli_raised>>
    /\ UNCHANGED cli_args
    /\ UNCHANGED <<lifeVars, callVars, exit_result>>

\* `vigicrues get <station_id>`: run builds Vigicrues() and hands it to get
InitCli ==
    \E station_id \in CliIds :
        Vigicrues_init(FALSE, NoTimeout) /\ cli_at("start", station_id)

NextCli ==
    \/ cli_get
    \/ cli_get_details
    \/ cli_get_height
    \/ cli_get_flow

SpecCli == InitCli /\ [][NextCli]_vars

\* ------------------------------------------------------------------------
\* Properties
\* ------------------------------------------------------------------------
\* an operation has been called and has ended
Ended == pc = "idle" /\ call.op # ""

SessionOpen == session # NoSession /\ ~sessions[session].closed

SearchOps == {"DiscoveryClient.search_stations", "Vigicrues.search_stations"}
OpsWithId == SearchOps \cup {"get_troncons", "get_troncon_stations",
                              "get_station_details", "get_latest_observations"}

FacadeChecked == call.op = "Vigicrues.search_stations" /\ CheckValue(call.check)

\* C1: every operation that takes an identifier or a query, called with the
\* empty string, raises ValueError and has issued no request
C1_EmptyArgumentRejected ==
    (Ended /\ call.op \in OpsWithId /\ call.arg = "")
        => /\ outcome.kind = "raise"
           /\ outcome.error.type = "ValueError"
           /\ requests = <<>>

\* C1 witness: the checked facade search with an empty query on an open session
C1_Witness ==
    /\ Ended /\ call.op = "Vigicrues.search_stations" /\ call.check = "true"
    /\ call.arg = "" /\ SessionOpen
    /\ outcome.kind = "raise" /\ requests = <<>>

\* C2 as stated: on a client without a session every call raises RuntimeError
\* and issues no request
C2_NoSessionAlwaysPrecondition ==
    (Ended /\ session = NoSession)
        => /\ outcome.kind = "raise"
           /\ outcome.error.type = "RuntimeError"
           /\ requests = <<>>

\* the arguments of the call pass the operation's argument guards
ArgsPassGuards ==
    /\ call.op \in OpsWithId => call.arg # ""
    /\ call.op = "get_latest_observations" => call.obs_type \in {"H", "Q"}

\* C2 amended: on a client without a session, every call whose arguments pass
\* the argument guards raises RuntimeError "Session is not initialized", never
\* an attribute error on None, and issues no request
C2_NoSessionPrecondition ==
    session = NoSession
        => /\ pc = "idle"
           /\ (call.op # "" /\ ArgsPassGuards)
                 => /\ outcome = Raised(SessionNotInitialized)
                    /\ requests = <<>>

\* C2 witness: get_territories on a facade that was never entered
C2_Witness ==
    /\ Ended /\ session = NoSession /\ call.op = "get_territories"
    /\ outcome.kind = "raise" /\ outcome.error.type = "RuntimeError"

FacadeSessions == {i \in 1..Len(sessions) : sessions[i].creator = "facade"}
ExternalSessions == {i \in 1..Len(sessions) : sessions[i].creator = "external"}

\* C3: after enter and exit the session the facade created is closed, and no
\* external session is ever closed by the facade
C3_SessionOwnership ==
    /\ \A i \in ExternalSessions : sessions[i].closed_by # "facade"
    /\ (owns_session /\ exit_result.done /\ session # NoSession)
          => sessions[session].closed
    /\ (owns_session /\ exit_result.done /\ enters = 1)
          => \A i \in FacadeSessions : sessions[i].closed

\* C3 witness: an owning facade entered once, used and exited
C3_Witness ==
    /\ owns_session /\ exit_result.done /\ enters = 1 /\ session # NoSession
    /\ sessions[session].closed /\ sessions[session].closed_by = "facade"
    /\ requests # <<>>

\* C4: once an owning facade has left its scope the session acquired on entry
\* is closed, whether the body ended normally or with an error, and the error
\* of the body reaches the caller
C4_ReleasedOnAllExitPaths ==
    (owns_session /\ exit_result.done /\ session # NoSession)
        => /\ sessions[session].closed
           /\ enters = 1 => \A i \in FacadeSessions : sessions[i].closed
           /\ outcome.kind = "raise" => exit_result.propagated = outcome.error
           /\ outcome.kind # "raise" => exit_result.propagated = NoErr

\* C4 witness: the scope is left after an operation inside it failed with an
\* HTTP response error
C4_Witness ==
    /\ owns_session /\ exit_result.done /\ session # NoSession
    /\ requests # <<>>
    /\ outcome.kind = "raise" /\ outcome.error.type = "ClientResponseError"
    /\ exit_result.propagated = outcome.error
    /\ sessions[session].closed

\* the records of a catalog answer all carry an identifier and a name
AllCarryIdAndName(results) ==
    \A i \in 1..Len(results) :
        results[i].cdstationhydro # ABSENT /\ results[i].lbstationhydro # ABSENT

IsActive(r) == r.dtfermeturestationhydro \in {ABSENT, NULL}

\* the active records, in upstream order, as Station summaries
RECURSIVE ActiveSummaries(_)
ActiveSummaries(results) ==
    IF results = <<>> THEN <<>>
    ELSE (IF IsActive(Head(results))
          THEN <<[id |-> Head(results).cdstationhydro,
                  name |-> Head(results).lbstationhydro]>>
          ELSE <<>>) \o ActiveSummaries(Tail(results))

CatalogAnswered ==
    /\ response.kind = "response" /\ response.status = 200
    /\ response.body.isdict /\ response.body.has_results

\* C5: discovery search returns exactly the records whose closure date is
\* absent or null, in upstream order, as Stations with the record's identifier
\* and name, when every record carries both
C5_ActiveStationsInOrder ==
    (Ended /\ call.op = "DiscoveryClient.search_stations" /\ CatalogAnswered
       /\ AllCarryIdAndName(response.body.results))
        => outcome = Returned(ActiveSummaries(response.body.results))

\* C5 witness: one closed record followed by one active record with a null
\* closure date
C5_Witness ==
    /\ Ended /\ call.op = "DiscoveryClient.search_stations" /\ CatalogAnswered
    /\ Len(response.body.results) = 2
    /\ AllCarryIdAndName(response.body.results)
    /\ ~IsActive(response.body.results[1])
    /\ response.body.results[2].dtfermeturestationhydro = NULL
    /\ outcome.kind = "return" /\ Len(outcome.value) = 1

\* the detail fetch of hit i failed with a transport-level error
DetailTransportError(i) ==
    detail_results[i].kind = "raise" /\ IsInstance(detail_results[i].error, "ClientError")

\* the details that were fetched successfully, in order
RECURSIVE Fetched(_)
Fetched(results) ==
    IF results = <<>> THEN <<>>
    ELSE (IF Head(results).kind = "return" THEN Head(results).value ELSE <<>>)
         \o Fetched(Tail(results))

\* C6: in the checked search a hit whose detail fetch fails with a
\* transport-level error is dropped, the error does not reach the caller and
\* the search goes on with the next hit; one hit failing so gives the empty list
C6_TransportErrorDropped ==
    (call.op = "Vigicrues.search_stations" /\ detail_results # <<>>)
        => /\ valid_full_stations = Fetched(detail_results)
           /\ outcome.kind = "raise" => ~IsInstance(outcome.error, "ClientError")
           /\ \A i \in 1..Len(detail_results) :
                 DetailTransportError(i)
                   => /\ outcome # detail_results[i]
                      /\ (i < Len(stations)
                            => (Len(detail_results) > i
                                \/ (pc = "search_detail" /\ idx = i + 1)))
                      /\ (i = Len(stations)
                            => outcome = Returned(valid_full_stations))
           /\ (pc = "idle" /\ Len(stations) = 1 /\ DetailTransportError(1))
                 => outcome = Returned(<<>>)

\* C6 witness: two hits, the first detail fetch fails with an HTTP error, the
\* second succeeds and is the only record returned
C6_Witness ==
    /\ Ended /\ FacadeChecked /\ Len(stations) = 2 /\ Len(detail_results) = 2
    /\ detail_results[1].kind = "raise"
    /\ detail_results[1].error.type = "ClientResponseError"
    /\ detail_results[2].kind = "return"
    /\ outcome = Returned(detail_results[2].value)

\* every hit has had its detail fetched successfully
AllDetailsFetched ==
    /\ Len(detail_results) = Len(stations)
    /\ \A i \in 1..Len(detail_results) : detail_results[i].kind = "return"

\* C7: in the checked search, when the detail fetch succeeds for every hit,
\* the result holds one record per hit, in discovery order, and each is the
\* record the detail fetch returned for that hit
C7_DetailsReplaceSummaries ==
    (Ended /\ FacadeChecked /\ stations # <<>> /\ AllDetailsFetched)
        => /\ outcome.kind = "return"
           /\ Len(outcome.value) = Len(stations)
           /\ \A i \in 1..Len(stations) :
                 /\ outcome.value[i] = detail_results[i].value[1]
                 /\ outcome.value[i].id = stations[i].id
                 /\ outcome.value[i] # stations[i]

\* C7 witness: two different hits, both details fetched, names taken from the
\* detail documents
C7_Witness ==
    /\ Ended /\ FacadeChecked /\ Len(stations) = 2 /\ AllDetailsFetched
    /\ stations[1].id # stations[2].id
    /\ Len(outcome.value) = 2
    /\ outcome.value[1].name # stations[1].name

\* C8 as stated: a facade search called with a query only returns the Station
\* summaries of the active hits, whatever the station-detail requests do
C8_DefaultSearchReturnsSummaries ==
    (Ended /\ call.op = "Vigicrues.search_stations" /\ call.check = "omitted"
       /\ stations # <<>>)
        => outcome = Returned(stations)

\* C9: get_latest_observations with a station id and an obs_type outside
\* {"H", "Q"} raises ValueError naming the two allowed values and issues no
\* request
C9_ObsTypeRejected ==
    (Ended /\ call.op = "get_latest_observations" /\ call.arg # ""
       /\ call.obs_type \notin {"H", "Q"})
        => /\ outcome = Raised(Err("ValueError",
                                    <<"obs_type must be 'H' (height) or 'Q' (flow)">>))
           /\ requests = <<>>

\* C9 witness: a lowercase h on an open session
C9_Witness ==
    /\ Ended /\ call.op = "get_latest_observations" /\ call.arg = "S1"
    /\ call.obs_type = "h" /\ SessionOpen
    /\ outcome.kind = "raise" /\ requests = <<>>

\* the observation series of the answer is empty
SeriesEmpty ==
    /\ response.kind = "response" /\ response.status = 200
    /\ (~response.body.has_serie \/ response.body.ObssHydro = <<>>)

\* C10: a successful answer with an empty observation series makes
\* get_latest_observations raise ValueError "No observations found" and
\* return no Observation
C10_EmptySeriesRejected ==
    (Ended /\ call.op = "get_latest_observations" /\ SeriesEmpty)
        => /\ outcome = Raised(Err("ValueError", <<"No observations found">>))
           /\ outcome.value = <<>>

\* C10 witness: the answer carries the series key with an empty list
C10_Witness ==
    /\ Ended /\ call.op = "get_latest_observations" /\ call.obs_type = "H"
    /\ response.kind = "response" /\ response.status = 200
    /\ response.body.has_serie /\ response.body.ObssHydro = <<>>
    /\ Len(requests) = 1 /\ outcome.kind = "raise"

\* the answer carries a non-empty observation series
SeriesGiven ==
    /\ response.kind = "response" /\ response.status = 200
    /\ response.body.has_serie /\ response.body.ObssHydro # <<>>

\* C11: for a non-empty series get_latest_observations returns the entry at
\* the last position, whatever the order of the timestamps, with that entry's
\* value and timestamp, the requested type, and the unit m for H, m3/s for Q
C11_LastEntryReturned ==
    (Ended /\ call.op = "get_latest_observations" /\ SeriesGiven)
        => LET series == response.body.ObssHydro
               entry == series[Len(series)]
           IN  /\ outcome.kind = "return"
               /\ Len(outcome.value) = 1
               /\ outcome.value[1].value = entry.ResObsHydro
               /\ outcome.value[1].timestamp = fromisoformat(entry.DtObsHydro)
               /\ outcome.value[1].type = call.obs_type
               /\ call.obs_type = "H" => outcome.value[1].unit = "m"
               /\ call.obs_type = "Q" => outcome.value[1].unit = "m3/s"

\* C11 witness: a flow series whose first entry is later than its last one
C11_Witness ==
    /\ Ended /\ call.op = "get_latest_observations" /\ call.obs_type = "Q"
    /\ SeriesGiven /\ Len(response.body.ObssHydro) = 2
    /\ response.body.ObssHydro[1].DtObsHydro = "2026-02-12T11:15:00+00:00"
    /\ response.body.ObssHydro[2].DtObsHydro = "2026-02-12T11:00:00+00:00"
    /\ response.body.ObssHydro[1].ResObsHydro # response.body.ObssHydro[2].ResObsHydro
    /\ outcome.kind = "return" /\ outcome.value[1].timestamp.minute = 660

\* the operation's request was answered with a status outside 200..299
ErrorStatusAnswered == response.kind = "response" /\ response.status \notin 200..299

DetailDocAnswered ==
    /\ Ended /\ call.op = "get_station_details"
    /\ response.kind = "response" /\ response.status = 200

\* a coordinate that is absent, null or the empty string
MissingCoordinate(v) == v \in {ABSENT, NULL, ""}

\* a coordinate string that reads as a number
NumericCoordinate(v) == v \in {"567613", "6325598"}

C13_WitnessFormat ==
    /\ DetailDocAnswered
    /\ response.body.CoordStationHydro.CoordXStationHydro = "567613"
    /\ response.body.CoordStationHydro.CoordYStationHydro = "abc"
    /\ outcome.kind = "raise" /\ outcome.error.msg[1] = "Invalid coordinate format: "

UncheckedSearchCalled ==
    /\ pc = "idle" /\ lifeVars' = lifeVars /\ callVars' # callVars
    /\ call'.op = "Vigicrues.search_stations" /\ call'.check = "false"

\* a step in which the catalog answers the facade search with check = False
UncheckedSearchAnswered ==
    /\ pc = "search_catalog" /\ call.check = "false"

\* C15: with check = False the facade search does, step by step, what
\* DiscoveryClient.search_stations does for the same query and the same
\* catalog answer: the same error before any request or the same catalog
\* request, then the same list or the same error, and no further request
C15_UncheckedSearchIsDiscovery ==
    [][/\ UncheckedSearchCalled
           => LET b == discovery_begin(call'.arg)
              IN  IF b.err # NoErr
                  THEN pc' = "idle" /\ requests' = <<>> /\ outcome' = Raised(b.err)
                  ELSE pc' = "search_catalog" /\ requests' = <<b.req>>
       /\ UncheckedSearchAnswered
           => /\ pc' = "idle"
              /\ response' # NoResponse
              /\ outcome' = discovery_end(response')
              /\ requests' = requests
              /\ Len(requests') = 1 /\ requests'[1].endpoint = "records"
              /\ detail_results' = <<>>]_vars

\* C15 witness: a facade search with check = False has returned two
\* summaries on one catalog request
C15_Witness ==
    /\ Ended /\ call.op = "Vigicrues.search_stations" /\ call.check = "false"
    /\ outcome.kind = "return" /\ Len(outcome.value) = 2
    /\ outcome = discovery_end(response)
    /\ Len(requests) = 1

\* the detail requests issued so far by the running or ended search
DetailRequests == SubSeq(requests, 2, Len(requests))

\* C16: an operation other than the checked facade search has issued at
\* most one request; the checked facade search issues the catalog request
\* first and no other before the catalog has answered, then at most one
\* detail request per hit, in the order of the hits, each one only after all
\* earlier detail requests have been answered or have failed
C16_RequestsSequential ==
    /\ ~FacadeChecked => Len(requests) <= 1
    /\ FacadeChecked
         => /\ requests # <<>> => requests[1].endpoint = "records"
            /\ pc = "search_catalog" => Len(requests) = 1
            /\ Len(DetailRequests) <= Len(stations)
            /\ \A k \in 1..Len(DetailRequests) :
                  /\ DetailRequests[k].endpoint = "station.json/index.php"
                  /\ DetailRequests[k].id = stations[k].id
            /\ pc = "search_detail" => Len(DetailRequests) = Len(detail_results) + 1
            /\ pc # "search_detail" => Len(DetailRequests) = Len(detail_results)

\* C16 witness: the second detail request is pending, the first one failed
C16_Witness ==
    /\ FacadeChecked /\ pc = "search_detail"
    /\ Len(stations) = 2 /\ Len(requests) = 3
    /\ Len(detail_results) = 1 /\ detail_results[1].kind = "raise"

\* the detail fetch for hit i raised an error that is not a transport error
DetailDataError(i) ==
    /\ detail_results[i].kind = "raise"
    /\ ~IsInstance(detail_results[i].error, "ClientError")

\* C17: when a detail fetch of the checked facade search raises ValueError
\* (ValidationError included), the search ends with exactly that error, it
\* returns no list, and no detail request follows the failed one
C17_DataErrorAbortsSearch ==
    FacadeChecked
        => \A i \in 1..Len(detail_results) :
              DetailDataError(i)
                => /\ IsInstance(detail_results[i].error, "ValueError")
                   /\ i = Len(detail_results)
                   /\ pc = "idle"
                   /\ outcome = detail_results[i]
                   /\ outcome.kind = "raise" /\ outcome.value = <<>>
                   /\ Len(requests) = 1 + i

\* C17 witness: two hits, the first detail document lacks a coordinate; the
\* search has raised after two requests
C17_Witness ==
    /\ FacadeChecked /\ Ended /\ Len(stations) = 2
    /\ Len(detail_results) = 1 /\ DetailDataError(1)
    /\ detail_results[1].error.msg[1] = "Missing coordinates for station "
    /\ outcome.kind = "raise" /\ Len(requests) = 2

\* the same with a detail document that fails validation, after a first hit
\* whose details were fetched
C17_WitnessValidation ==
    /\ FacadeChecked /\ Ended /\ Len(stations) = 2
    /\ Len(detail_results) = 2 /\ detail_results[1].kind = "return"
    /\ DetailDataError(2) /\ detail_results[2].error.type = "ValidationError"
    /\ outcome.kind = "raise" /\ Len(requests) = 3

\* C18 as stated: once the facade's session reference holds a session, no
\* step of construction, enter, operation or exit changes it
C18_SessionAssignedOnce ==
    [][session # NoSession => session' = session]_vars

\* the reference is left alone by every operation and by exit, and an
\* external session is never replaced
SessionReassignedOnlyOnEntry ==
    [][session' # session => (owns_session /\ enters' = enters + 1)]_vars

\* the facade holds its second session
SessionReassigned == session = 2 /\ Len(sessions) = 2 /\ owns_session

\* the timeout the caller asked for: the argument, or 30 seconds without one
RequestedTimeout == IF timeout_arg = NoTimeout THEN DEFAULT_TIMEOUT ELSE timeout_arg

\* C19 as stated: every session the facade creates has the timeout given at
\* construction, whatever its value, and 30 seconds only when none was given
C19_CreatedSessionUsesGivenTimeout ==
    \A i \in FacadeSessions : sessions[i].timeout = RequestedTimeout

\* a facade built with timeout 0 holds a session it created
ZeroTimeoutEntered == timeout_arg = 0 /\ owns_session /\ session # NoSession

\* the catalog answered the discovery search with a record that has neither
\* the identifier nor the name
RecordLacksIdAndName ==
    /\ Ended /\ call.op = "DiscoveryClient.search_stations" /\ CatalogAnswered
    /\ \E i \in 1..Len(response.body.results) :
          /\ response.body.results[i].cdstationhydro = ABSENT
          /\ response.body.results[i].lbstationhydro = ABSENT

\* C20 as stated: a catalog record lacking identifier and name makes the
\* discovery search raise pydantic's ValidationError and return nothing
C20_MissingKeysRaiseValidationError ==
    RecordLacksIdAndName
        => /\ outcome.kind = "raise"
           /\ outcome.error.type = "ValidationError"

\* get_station_details has received a station document with a name, the
\* VigilanceCrues part and the given coordinate strings
DetailDocWith(x, y) ==
    /\ DetailDocAnswered
    /\ response.body.LbStationHydro # ABSENT
    /\ response.body.VigilanceCrues.given
    /\ response.body.CoordStationHydro = CoordDoc(x, y)

\* C21 as stated: a station document whose x coordinate is no number, all
\* else valid, makes get_station_details raise pydantic's ValidationError
C21_BadCoordinateRaisesValidationError ==
    DetailDocWith("abc", "6325598")
        => /\ outcome.kind = "raise"
           /\ outcome.error.type = "ValidationError"

\* C22 as stated: for the coordinates "567613" and "6325598"
\* get_station_details returns StationDetails with latitude 567613 and
\* longitude 6325598, and with name, river, city, picture_url,
\* is_prediction_station, one historical flood and one related station
\* from the document
C22_RawCoordinatesReturned ==
    DetailDocWith("567613", "6325598")
        => /\ outcome.kind = "return"
           /\ outcome.value[1].latitude = Degrees(567613, 0)
           /\ outcome.value[1].longitude = Degrees(6325598, 0)
           /\ outcome.value[1].name = response.body.LbStationHydro
           /\ outcome.value[1].river = response.body.LbCoursEau
           /\ outcome.value[1].city = response.body.CdCommune
           /\ outcome.value[1].picture_url = response.body.VigilanceCrues.Photo
           /\ outcome.value[1].is_prediction_station
                 = response.body.VigilanceCrues.StationPrevision
           /\ Len(outcome.value[1].historical_floods) = 1
           /\ Len(outcome.value[1].related_stations) = 1

\* what holds of the same call: every field but the coordinates is as C22
\* says, and the coordinates are the converted ones
DocumentFieldsReturned ==
    DetailDocWith("567613", "6325598")
        => /\ outcome.kind = "return"
           /\ outcome.value[1].latitude = Degrees(44, 16925)
           /\ outcome.value[1].longitude = Degrees(1, 348806)
           /\ outcome.value[1].name = response.body.LbStationHydro
           /\ outcome.value[1].river = response.body.LbCoursEau
           /\ outcome.value[1].city = response.body.CdCommune
           /\ outcome.value[1].picture_url = response.body.VigilanceCrues.Photo
           /\ outcome.value[1].is_prediction_station
                 = response.body.VigilanceCrues.StationPrevision
           /\ Len(outcome.value[1].historical_floods) = 1
           /\ Len(outcome.value[1].related_stations) = 1

\* a listing operation has received a document
ListingAnswered(op) ==
    /\ Ended /\ call.op = op
    /\ response.kind = "response" /\ response.status = 200

\* the number of children held by the parent entries before entry p
RECURSIVE ChildrenBefore(_, _)
ChildrenBefore(parents, p) ==
    IF p <= 1 THEN 0
    ELSE ChildrenBefore(parents, p - 1) + Len(parents[p - 1].aNMoinsUn)

\* the returned list has one model per child entry: child j of parent p at
\* the place after all children of the parents before p and the first j - 1
\* children of p
OnePerChildInOrder(parents, models) ==
    /\ Len(models) = ChildrenBefore(parents, Len(parents) + 1)
    /\ \A p \in 1..Len(parents) : \A j \in 1..Len(parents[p].aNMoinsUn) :
          LET m == models[ChildrenBefore(parents, p) + j]
              child == parents[p].aNMoinsUn[j]
          IN  /\ m.id = child.CdEntVigiCruInferieur
              /\ m.name = child.LbEntVigiCruInferieur

\* every child entry carries an identifier and a name
ChildrenValid(parents) ==
    \A p \in 1..Len(parents) : \A j \in 1..Len(parents[p].aNMoinsUn) :
        /\ parents[p].aNMoinsUn[j].CdEntVigiCruInferieur # ABSENT
        /\ parents[p].aNMoinsUn[j].LbEntVigiCruInferieur # ABSENT

\* C23: get_territories returns one Territory per upstream record, in
\* upstream order; get_troncons and get_troncon_stations return one record
\* per nested child entry, the children of the first parent entry first, then
\* those of the next; nothing is dropped; get_troncons asks for child type
\* "5" and get_troncon_stations for child type "8", with the given identifier
C23_ListingsKeepOrder ==
    /\ ListingAnswered("get_territories")
         => LET records == response.body.ListEntVigiCru
            IN  /\ (\A i \in 1..Len(records) : records[i].CdEntVigiCru # ABSENT)
                      => outcome.kind = "return"
                /\ outcome.kind = "return"
                      => /\ Len(outcome.value) = Len(records)
                         /\ \A i \in 1..Len(records) :
                               /\ outcome.value[i].id = records[i].CdEntVigiCru
                               /\ outcome.value[i].name = records[i].LbEntVigiCru
    /\ \A op \in {"get_troncons", "get_troncon_stations"} :
          ListingAnswered(op)
            => /\ ChildrenValid(response.body.ListEntVigiCru) => outcome.kind = "return"
               /\ outcome.kind = "return"
                     => OnePerChildInOrder(response.body.ListEntVigiCru, outcome.value)
               /\ requests = <<[endpoint |-> requests[1].endpoint, id |-> call.arg,
                                typ |-> IF op = "get_troncons" THEN "5" ELSE "8"]>>

\* C23 witness: get_troncons has returned two troncons that came under two
\* parent entries
C23_Witness ==
    /\ ListingAnswered("get_troncons")
    /\ Len(response.body.ListEntVigiCru) = 2
    /\ Len(response.body.ListEntVigiCru[1].aNMoinsUn) = 1
    /\ Len(response.body.ListEntVigiCru[2].aNMoinsUn) = 1
    /\ outcome.kind = "return" /\ Len(outcome.value) = 2
    /\ outcome.value[1].id = "C1" /\ outcome.value[2].id = "C2"
    /\ requests[1].typ = "5"

\* get_territories has returned two territories in upstream order
C23_WitnessTerritories ==
    /\ ListingAnswered("get_territories")
    /\ outcome.kind = "return" /\ Len(outcome.value) = 2
    /\ outcome.value[1].id = "26" /\ outcome.value[2].id = "25"

\* the observation requests cli.get has made so far
CliObservationCalls == SubSeq(cli_calls, 2, Len(cli_calls))

\* the observation requests the flags of the details ask for: H, then Q
CliCallsFor(details) ==
    (IF details.has_height_data
     THEN <<CliCall("get_latest_observations", details.id, "H")>> ELSE <<>>)
    \o (IF details.has_flow_data
        THEN <<CliCall("get_latest_observations", details.id, "Q")>> ELSE <<>>)

\* get_station_details has answered cli.get with details
CliDetailsReturned == cli_results # <<>> /\ cli_results[1].kind = "return"

\* C24: cli.get calls get_station_details first and nothing else before it
\* has answered; after a ClientResponseError it makes no further call; after
\* details, its observation requests are, in this order, H if
\* has_height_data and Q if has_flow_data, each at most once, all of them
\* made when the command ends without an exception; a ValueError from the H
\* request is followed by the Q request
C24_GetRequestsByFlags ==
    /\ cli_pc \notin {"off", "start"}
         => cli_calls[1] = CliCall("get_station_details", cli_args, "")
    /\ cli_pc \in {"off", "start"} => cli_calls = <<>>
    /\ cli_pc = "details" => Len(cli_calls) = 1
    /\ (cli_results # <<>> /\ cli_results[1].kind = "raise")
         => /\ Len(cli_calls) = 1
            /\ cli_pc = "done"
    /\ CliDetailsReturned
         => LET wanted == CliCallsFor(cli_results[1].value[1])
            IN  /\ Len(CliObservationCalls) <= Len(wanted)
                /\ \A k \in 1..Len(CliObservationCalls) :
                      CliObservationCalls[k] = wanted[k]
                /\ (cli_pc = "done" /\ cli_raised = NoErr)
                      => CliObservationCalls = wanted
    /\ (/\ CliDetailsReturned
        /\ cli_results[1].value[1].has_height_data
        /\ cli_results[1].value[1].has_flow_data
        /\ Len(cli_results) >= 2
        /\ cli_results[2].kind = "raise"
        /\ IsInstance(cli_results[2].error, "ValueError"))
         => /\ Len(cli_calls) = 3
            /\ cli_calls[3].obs_type = "Q"

\* C24 witness: both flags set, the H request raised ValueError, the Q
\* request was made and answered
C24_Witness ==
    /\ cli_pc = "done" /\ CliDetailsReturned
    /\ Len(cli_calls) = 3 /\ Len(cli_results) = 3
    /\ cli_calls[2].obs_type = "H" /\ cli_calls[3].obs_type = "Q"
    /\ cli_results[2].kind = "raise" /\ cli_results[3].kind = "return"

\* only the flow flag is set and only Q was requested
C24_WitnessFlowOnly ==
    /\ cli_pc = "done" /\ CliDetailsReturned
    /\ ~cli_results[1].value[1].has_height_data
    /\ Len(cli_calls) = 2 /\ cli_calls[2].obs_type = "Q"

\* the station was not found and nothing was requested after that
C24_WitnessNotFound ==
    /\ cli_pc = "done" /\ cli_results # <<>>
    /\ cli_results[1].kind = "raise" /\ StationNotFound(cli_results[1].error)
    /\ Len(cli_calls) = 1 /\ cli_raised = NoErr

\* C25: on a client without a session, a call with an empty identifier or
\* query raises ValueError, not the RuntimeError of the session guard; in
\* get_latest_observations an empty station id is reported before an invalid
\* obs_type, and an invalid obs_type before the missing session
C25_ArgumentGuardsFirst ==
    /\ (Ended /\ session = NoSession /\ call.op \in OpsWithId /\ call.arg = "")
         => /\ outcome.kind = "raise"
            /\ outcome.error.type = "ValueError"
            /\ outcome.error # SessionNotInitialized
    /\ (Ended /\ call.op = "get_latest_observations")
         => /\ call.arg = ""
                 => outcome = Raised(Err("ValueError", <<"Station ID cannot be empty">>))
            /\ (call.arg # "" /\ call.obs_type \notin {"H", "Q"})
                 => outcome = Raised(Err("ValueError",
                                  <<"obs_type must be 'H' (height) or 'Q' (flow)">>))
            /\ (call.arg # "" /\ call.obs_type \in {"H", "Q"} /\ session = NoSession)
                 => outcome = Raised(SessionNotInitialized)

\* C25 witness: get_latest_observations with an empty station id and an
\* invalid obs_type on a client without a session
C25_Witness ==
    /\ Ended /\ call.op = "get_latest_observations" /\ session = NoSession
    /\ call.arg = "" /\ call.obs_type = "X"
    /\ outcome.kind = "raise" /\ outcome.error.type = "ValueError"

\* the discovery search with an empty query on a client without a session
C25_WitnessSearch ==
    /\ Ended /\ call.op = "DiscoveryClient.search_stations" /\ session = NoSession
    /\ call.arg = "" /\ outcome.kind = "raise"

\* the record lacks the identifier key or the name key
LacksKey(record) == record.cdstationhydro = ABSENT \/ record.lbstationhydro = ABSENT

\* the record carries a closure date
Closed(record) == record.dtfermeturestationhydro \notin {ABSENT, NULL}

OpenFacadeSessions == {i \in FacadeSessions : ~sessions[i].closed}

\* C27 as stated: a facade that owns its session has at most one session of
\* its own open at any time, and none once it has been exited as often as
\* entered
C27_AtMostOneOpenSession ==
    owns_session
        => /\ Cardinality(OpenFacadeSessions) <= 1
           /\ exits = enters => OpenFacadeSessions = {}

\* a facade entered twice and exited twice still has a session open
SessionLeaked ==
    /\ owns_session /\ enters = 2 /\ exits = 2
    /\ OpenFacadeSessions = {1} /\ session = 2

\* a step that calls an operation whose arguments pass its argument guards
GuardedCallMade ==
    /\ pc = "idle" /\ lifeVars' = lifeVars /\ callVars' # callVars
    /\ call'.op \in OpsWithId => call'.arg # ""
    /\ call'.op = "get_latest_observations" => call'.obs_type \in {"H", "Q"}

SessionClosedError == Err("RuntimeError", <<"Session is closed">>)

\* C28: __aexit__ of a facade that owns its session leaves the session
\* reference as it is, designating the session it has closed; an operation
\* called on the facade while its session is closed does not raise the
\* session guard's RuntimeError "Session is not initialized": it reaches
\* session.get, which refuses the closed session, and no request goes out
C28_ExitKeepsClosedSession ==
    [][/\ (exits' = exits + 1 /\ owns_session)
           => /\ session' = session
              /\ session # NoSession => sessions'[session'].closed
       /\ (/\ GuardedCallMade /\ owns_session
           /\ session # NoSession /\ sessions[session].closed)
           => /\ outcome' # Raised(SessionNotInitialized)
              /\ outcome' = Raised(SessionClosedError)
              /\ requests' = <<>>]_vars

\* C28 witness: get_territories was called after the exit of an owning
\* facade and met the closed session
C28_Witness ==
    /\ Ended /\ call.op = "get_territories"
    /\ owns_session /\ enters = 1 /\ exits = 1 /\ ~exit_result.done
    /\ session # NoSession /\ sessions[session].closed
    /\ outcome = Raised(SessionClosedError)

\* f picks, in increasing order, one hit for every returned record
PicksHits(f) ==
    /\ \A k \in DOMAIN f : \A l \in DOMAIN f : k < l => f[k] < f[l]
    /\ \A k \in DOMAIN f :
          /\ outcome.value[k].id = stations[f[k]].id
          /\ detail_results[f[k]] = Returned(<<outcome.value[k]>>)

\* C29: a list returned by the checked facade search is no longer than the
\* list of discovery hits, and its records can be matched, in order and
\* each with a different hit, with hits whose details were fetched: each
\* record carries the identifier of its hit, not the document's
C29_ResultIsSubsequenceOfHits ==
    (Ended /\ FacadeChecked /\ outcome.kind = "return")
        => /\ Len(outcome.value) <= Len(stations)
           /\ \E f \in [1..Len(outcome.value) -> 1..Len(stations)] : PicksHits(f)

\* C29 witness: two hits, the first one dropped, the second one returned
\* with its own identifier
C29_Witness ==
    /\ Ended /\ FacadeChecked /\ outcome.kind = "return"
    /\ Len(stations) = 2 /\ stations[1].id # stations[2].id
    /\ detail_results[1].kind = "raise"
    /\ Len(outcome.value) = 1 /\ outcome.value[1].id = stations[2].id

\* the facade holds the session it was given, untouched by the facade
HoldsExternalSession ==
    /\ session = 1 /\ Len(sessions) = 1
    /\ sessions[1].creator = "external"
    /\ sessions[1].timeout = EXTERNAL_TIMEOUT
    /\ sessions[1].closed_by # "facade"

\* C30: the ownership flag is set at construction, true exactly when no
\* session was given, and never changes; a facade given a session holds that
\* session at all times, creates none, leaves its timeout alone whatever
\* timeout argument it got, and an enter or exit changes neither the
\* reference nor any session
C30_ExternalSessionUntouched ==
    /\ [](/\ owns_session <=> ExternalSessions = {}
          /\ ~owns_session => HoldsExternalSession)
    /\ [][/\ owns_session' = owns_session
           /\ (~owns_session /\ (enters' # enters \/ exits' # exits))
                => /\ session' = session
                   /\ sessions' = sessions
                   /\ timeout' = timeout]_vars

\* C30 witness: a facade given a session and a timeout of ten seconds has
\* been entered and exited; the session is open with its own timeout
C30_Witness ==
    /\ ~owns_session /\ timeout_arg = 10
    /\ enters = 1 /\ exits = 1 /\ exit_result.done
    /\ HoldsExternalSession /\ ~sessions[1].closed

====
